---- MODULE Spec2Model ----
(***************************************************************************)
(* log-mdc: a mapped diagnostic context.  src/src/lib.rs keeps one         *)
(* HashMap<String, String> per thread (thread_local! MDC) and offers       *)
(* scoped inserts whose guards restore the old entries on drop;            *)
(* src/src/global.rs keeps one process-wide map behind an RwLock.          *)
(***************************************************************************)
EXTENDS Integers, Sequences, FiniteSets, TLC

Threads == {"A", "B"}
Keys == {"foo", "fizz"}
Vals == {"a", "b"}

\* The thread of the specifications in which one thread runs alone.
MainThread == "A"

\* Longest entry sequence handed to extend / extend_scoped.
MaxBatch == 2
\* Guards created in one behaviour of two threads.
MaxGuards == 1
\* Guards created in one behaviour of one thread.
MaxNested == 2

VARIABLES
    mdc,      \* [Threads -> map]: the thread_local MDC of every thread
    guards,   \* the InsertGuard / ExtendGuard values created so far, in creation order
    ret,      \* what the last thread-local operation returned (or passed to its callback)
    gmdc,     \* the map inside GLOBAL_MDC
    gret,     \* what the last operation of global.rs returned
    lock,     \* the RwLock of GLOBAL_MDC: who holds it, and whether it is poisoned
    pc        \* [Threads -> call]: where each thread is in a call that is followed step by step

vars == <<mdc, guards, ret, gmdc, gret, lock, pc>>

(***************************************************************************)
(* Option<String>: None is <<>>, Some(v) is <<v>>.                         *)
(***************************************************************************)
None == <<>>
Some(v) == <<v>>

(***************************************************************************)
(* HashMap<String, String>: a set of <<key, value>> entries.               *)
(***************************************************************************)
Entry == Keys \X Vals

EmptyMap == {}

MapGet(m, k) ==
    IF \E e \in m : e[1] = k
    THEN Some((CHOOSE e \in m : e[1] = k)[2])
    ELSE None

\* A wrong insert: the old value is not returned.
MapInsertNoOld(m, k, v) ==
    [map |-> {e \in m : e[1] # k} \cup {<<k, v>>}, old |-> None]

\* HashMap::insert: replaces the entry of k, returns the value it had.
MapInsert(m, k, v) ==
    [map |-> {e \in m : e[1] # k} \cup {<<k, v>>}, old |-> MapGet(m, k)]

\* HashMap::remove: drops the entry of k, returns the value it had.
MapRemove(m, k) ==
    [map |-> {e \in m : e[1] # k}, old |-> MapGet(m, k)]

\* A wrong clear: the entry of foo is kept.
MapClearKeepsFoo(m) == {e \in m : e[1] = "foo"}

\* HashMap::clear
MapClear(m) == EmptyMap

\* A wrong extend: the entries are inserted last to first.
RECURSIVE MapExtendReversed(_, _)
MapExtendReversed(m, entries) ==
    IF entries = <<>>
    THEN m
    ELSE MapInsert(MapExtendReversed(m, Tail(entries)),
                   Head(entries)[1], Head(entries)[2]).map

\* HashMap::extend: inserts the entries in the iterator's order.
RECURSIVE MapExtend(_, _)
MapExtend(m, entries) ==
    IF entries = <<>>
    THEN m
    ELSE MapExtend(MapInsert(m, Head(entries)[1], Head(entries)[2]).map, Tail(entries))

\* HashMap::iter: every entry once, in an order the map chooses.
IterOrders(m) ==
    {s \in [1..Cardinality(m) -> m] : \A i, j \in 1..Cardinality(m) : s[i] = s[j] => i = j}

\* The entry sequences a caller passes to extend / extend_scoped.
Batches == UNION {[1..n -> Entry] : n \in 0..MaxBatch}

(***************************************************************************)
(* Results, with the thread they went to.  tag says which shape val has:   *)
(* "option" an Option<String>, "unit" nothing, "visits" the visitor's      *)
(* calls in order, "guard" the index of the guard returned, "panic" an     *)
(* unwinding panic.                                                        *)
(***************************************************************************)
RetOption(t, o) == [by |-> t, tag |-> "option", val |-> o]
RetUnit(t) == [by |-> t, tag |-> "unit", val |-> <<>>]
RetVisits(t, s) == [by |-> t, tag |-> "visits", val |-> s]
RetGuard(t, g) == [by |-> t, tag |-> "guard", val |-> <<g>>]
RetPanic(t) == [by |-> t, tag |-> "panic", val |-> <<>>]

(***************************************************************************)
(* Guards.  key / old_value are InsertGuard's fields, entries is           *)
(* ExtendGuard's Vec<(String, Option<String>)>.  The other fields are      *)
(* history: issuer is the thread whose call created the guard, touched the *)
(* keys of its snapshot, before that thread's map just before the call,    *)
(* and hist what has happened to that map since:                           *)
(*   "clean"    only reads, scoped calls, and drops of clean guards with   *)
(*              pairwise distinct keys, newest first, by their issuer,     *)
(*   "tainted"  anything else,                                             *)
(*   "unwound"  the guard was dropped while clean and newest, by its       *)
(*              issuer,                                                    *)
(*   "dropped"  the guard was dropped otherwise.                           *)
(* before is kept for clean guards only.                                   *)
(***************************************************************************)
Live(g) == guards[g].hist \in {"clean", "tainted"}

LiveOf(t) == {g \in 1..Len(guards) : Live(g) /\ guards[g].issuer = t}

Newest(t, g) == g \in LiveOf(t) /\ \A h \in LiveOf(t) : h <= g

DistinctKeys(entries) ==
    \A i, j \in 1..Len(entries) : entries[i][1] = entries[j][1] => i = j

KeysOf(entries) == {entries[i][1] : i \in 1..Len(entries)}

\* Thread t drops g in order: g is live, clean, t's own and t's newest.
InOrder(t, g) ==
    /\ guards[g].issuer = t
    /\ Newest(t, g)
    /\ guards[g].hist = "clean"

\* The guards after the maps of the threads in ts were changed out of order.
Taint(ts) ==
    [g \in 1..Len(guards) |->
        IF Live(g) /\ guards[g].issuer \in ts
        THEN [guards[g] EXCEPT !.hist = "tainted", !.before = EmptyMap]
        ELSE guards[g]]

\* A wrong drop: the guard keeps its snapshot (clone where take / drain stand).
TakenNot(g) == guards[g]

\* Guard g after its drop emptied it: key.take() and old_value.take() of
\* InsertGuard::drop, drain(..) of ExtendGuard::drop.
Taken(g) ==
    [guards[g] EXCEPT !.key = None, !.old_value = None, !.entries = <<>>]

\* The guards after thread t ran the drop of guard g.
AfterDrop(t, g) ==
    IF ~Live(g)
    THEN [guards EXCEPT ![g] = Taken(g)]
    ELSE IF InOrder(t, g)
    THEN [(IF DistinctKeys(guards[g].entries) THEN guards ELSE Taint({t}))
             EXCEPT ![g] = [Taken(g) EXCEPT !.before = EmptyMap, !.hist = "unwound"]]
    ELSE [Taint({t, guards[g].issuer})
             EXCEPT ![g] = [Taken(g) EXCEPT !.before = EmptyMap, !.hist = "dropped"]]

(***************************************************************************)
(* src/src/lib.rs                                                          *)
(***************************************************************************)
\* A wrong MDC: one map for all threads where thread_local! stands.
InsertShared(t, k, v) ==
    LET r == MapInsert(mdc[t], k, v) IN
    /\ mdc' = [u \in Threads |-> MapInsert(mdc[u], k, v).map]
    /\ ret' = RetOption(t, r.old)
    /\ guards' = Taint(Threads)

\* insert
Insert(t, k, v) ==
    LET r == MapInsert(mdc[t], k, v) IN
    /\ mdc' = [mdc EXCEPT ![t] = r.map]
    /\ ret' = RetOption(t, r.old)
    /\ guards' = Taint({t})

\* insert_scoped
InsertScoped(t, k, v) ==
    LET r == MapInsert(mdc[t], k, v) IN
    /\ mdc' = [mdc EXCEPT ![t] = r.map]
    /\ guards' = Append(guards,
                        [kind |-> "insert", key |-> Some(k), old_value |-> r.old,
                         entries |-> <<>>, issuer |-> t, touched |-> {k},
                         before |-> mdc[t], hist |-> "clean"])
    /\ ret' = RetGuard(t, Len(guards) + 1)

\* extend
Extend(t, entries) ==
    /\ mdc' = [mdc EXCEPT ![t] = MapExtend(mdc[t], entries)]
    /\ ret' = RetUnit(t)
    /\ guards' = Taint({t})

\* A wrong extend_scoped: the snapshot is read after the insert.
RECURSIVE ExtendScopedFoldAfter(_, _, _)
ExtendScopedFoldAfter(m, entries, old_entries) ==
    IF entries = <<>>
    THEN [map |-> m, old_entries |-> old_entries]
    ELSE LET k == Head(entries)[1]
             r == MapInsert(m, k, Head(entries)[2])
         IN  ExtendScopedFoldAfter(r.map, Tail(entries),
                                   Append(old_entries, <<k, MapGet(r.map, k)>>))

\* A wrong extend_scoped: the snapshot is collected newest entry first.
RECURSIVE ExtendScopedFoldReversed(_, _, _)
ExtendScopedFoldReversed(m, entries, old_entries) ==
    IF entries = <<>>
    THEN [map |-> m, old_entries |-> old_entries]
    ELSE LET k == Head(entries)[1]
             r == MapInsert(m, k, Head(entries)[2])
         IN  ExtendScopedFoldReversed(r.map, Tail(entries), <<<<k, r.old>>>> \o old_entries)

\* The closure chain of extend_scoped: insert each entry, collect (key, old value).
RECURSIVE ExtendScopedFold(_, _, _)
ExtendScopedFold(m, entries, old_entries) ==
    IF entries = <<>>
    THEN [map |-> m, old_entries |-> old_entries]
    ELSE LET k == Head(entries)[1]
             r == MapInsert(m, k, Head(entries)[2])
         IN  ExtendScopedFold(r.map, Tail(entries), Append(old_entries, <<k, r.old>>))

\* extend_scoped
ExtendScoped(t, entries) ==
    LET r == ExtendScopedFold(mdc[t], entries, <<>>) IN
    /\ mdc' = [mdc EXCEPT ![t] = r.map]
    /\ guards' = Append(guards,
                        [kind |-> "extend", key |-> None, old_value |-> None,
                         entries |-> r.old_entries, issuer |-> t,
                         touched |-> KeysOf(entries), before |-> mdc[t],
                         hist |-> "clean"])
    /\ ret' = RetGuard(t, Len(guards) + 1)

\* get: the callback is handed the value of key
Get(t, k) ==
    /\ ret' = RetOption(t, MapGet(mdc[t], k))
    /\ UNCHANGED <<mdc, guards>>

\* remove
Remove(t, k) ==
    LET r == MapRemove(mdc[t], k) IN
    /\ mdc' = [mdc EXCEPT ![t] = r.map]
    /\ ret' = RetOption(t, r.old)
    /\ guards' = Taint({t})

\* clear
Clear(t) ==
    /\ mdc' = [mdc EXCEPT ![t] = MapClear(mdc[t])]
    /\ ret' = RetUnit(t)
    /\ guards' = Taint({t})

\* iter: the visitor is called once per entry
Iter(t) ==
    /\ \E s \in IterOrders(mdc[t]) : ret' = RetVisits(t, s)
    /\ UNCHANGED <<mdc, guards>>

\* A wrong InsertGuard::drop: the key is removed whatever the old value.
RestoreOneRemoves(m, key, old_value) == MapRemove(m, key).map

\* A wrong InsertGuard::drop: clear where remove stands.
RestoreOneWipes(m, key, old_value) ==
    IF old_value # None
    THEN MapInsert(m, key, old_value[1]).map
    ELSE MapClear(m)

\* A wrong InsertGuard::drop: a value the key holds now is not overwritten.
RestoreOneUnlessPresent(m, key, old_value) ==
    IF old_value # None
    THEN IF MapGet(m, key) = None THEN MapInsert(m, key, old_value[1]).map ELSE m
    ELSE MapRemove(m, key).map

\* The match of InsertGuard::drop: put the old value back, or remove the key.
RestoreOne(m, key, old_value) ==
    IF old_value # None
    THEN MapInsert(m, key, old_value[1]).map
    ELSE MapRemove(m, key).map

\* A wrong ExtendGuard::drop: entries that were absent are left in the map.
RECURSIVE RestoreAllKeeps(_, _)
RestoreAllKeeps(m, old_entries) ==
    IF old_entries = <<>>
    THEN m
    ELSE LET key == Head(old_entries)[1]
             value == Head(old_entries)[2]
         IN  RestoreAllKeeps(IF value # None
                             THEN MapInsert(m, key, value[1]).map
                             ELSE m,
                             Tail(old_entries))

\* The loop of ExtendGuard::drop: drain(..) yields the entries first to last.
RECURSIVE RestoreAll(_, _)
RestoreAll(m, old_entries) ==
    IF old_entries = <<>>
    THEN m
    ELSE LET key == Head(old_entries)[1]
             value == Head(old_entries)[2]
         IN  RestoreAll(IF value # None
                        THEN MapInsert(m, key, value[1]).map
                        ELSE MapRemove(m, key).map,
                        Tail(old_entries))

\* InsertGuard::drop, run by thread t: insert and remove reach t's own MDC.
\* key.take().unwrap() panics when the key was taken by an earlier run.
DropInsertGuard(t, g) ==
    /\ guards[g].kind = "insert"
    /\ IF guards[g].key = None
       THEN /\ ret' = RetPanic(t)
            /\ UNCHANGED <<mdc, guards>>
       ELSE /\ mdc' = [mdc EXCEPT ![t] = RestoreOne(mdc[t], guards[g].key[1],
                                                    guards[g].old_value)]
            /\ guards' = AfterDrop(t, g)
            /\ ret' = RetUnit(t)

\* ExtendGuard::drop, run by thread t: MDC.with reaches t's own MDC.
DropExtendGuard(t, g) ==
    /\ guards[g].kind = "extend"
    /\ mdc' = [mdc EXCEPT ![t] = RestoreAll(mdc[t], guards[g].entries)]
    /\ guards' = AfterDrop(t, g)
    /\ ret' = RetUnit(t)

Drop(t, g) == DropInsertGuard(t, g) \/ DropExtendGuard(t, g)

(***************************************************************************)
(* src/src/global.rs.  Every operation takes GLOBAL_MDC's lock on entry    *)
(* and gives it back on return; MainThread runs them here, one at a time.  *)
(***************************************************************************)
\* A wrong global insert: an entry already there is kept.
GInsertKeeps(k, v) ==
    /\ gmdc' = IF MapGet(gmdc, k) = None THEN MapInsert(gmdc, k, v).map ELSE gmdc
    /\ gret' = RetOption(MainThread, MapGet(gmdc, k))

\* insert
GInsert(k, v) ==
    LET r == MapInsert(gmdc, k, v) IN
    /\ gmdc' = r.map
    /\ gret' = RetOption(MainThread, r.old)

\* extend
GExtend(entries) ==
    /\ gmdc' = MapExtend(gmdc, entries)
    /\ gret' = RetUnit(MainThread)

\* get
GGet(k) ==
    /\ gret' = RetOption(MainThread, MapGet(gmdc, k))
    /\ UNCHANGED gmdc

\* remove
GRemove(k) ==
    LET r == MapRemove(gmdc, k) IN
    /\ gmdc' = r.map
    /\ gret' = RetOption(MainThread, r.old)

\* clear
GClear ==
    /\ gmdc' = MapClear(gmdc)
    /\ gret' = RetUnit(MainThread)

\* iter
GIter ==
    /\ \E s \in IterOrders(gmdc) : gret' = RetVisits(MainThread, s)
    /\ UNCHANGED gmdc

(***************************************************************************)
(* src/src/global.rs step by step.  A call waits at write() / read(), holds *)
(* the lock from there to its return, and runs the caller's code (the       *)
(* entries iterator of extend, the callback of get, the visitor of iter)    *)
(* where the source runs it.                                                *)
(***************************************************************************)
\* RwLock::new: nobody holds the lock, and it is not poisoned.
Unlocked == [writer |-> None, readers |-> {}, poisoned |-> FALSE]

\* Thread positions.  res is how the thread's last call ended: "none" (no call
\* ended yet), "ok" (it returned), "panic" (the caller's code panicked and the
\* call unwound) or "poisoned" (unwrap panicked on the Err of a poisoned lock).
\* at is "wait" (at write() / read()), "locked" (the write guard is held),
\* "callback" (the read guard is held and the caller's callback runs),
\* "borrowed" (the same in lib.rs, under the RefCell's shared borrow) or "stuck"
\* (blocked for ever); seen is what the callback was handed.
Idle(res) == [at |-> "idle", op |-> "none", args |-> <<>>, seen |-> <<>>, res |-> res]

WriterOps == {"insert", "extend", "remove", "clear"}

ReaderOps == {"get", "iter"}

\* The calls a thread can make: the function and its arguments.
Calls ==
    {<<"insert", <<k, v>>>> : k \in Keys, v \in Vals}
        \cup {<<"extend", entries>> : entries \in Batches}
        \cup {<<"get", <<k>>>> : k \in Keys}
        \cup {<<"remove", <<k>>>> : k \in Keys}
        \cup {<<"clear", <<>>>>, <<"iter", <<>>>>}

\* Thread t calls a function of global.rs.
GCall(t, op, args) ==
    /\ pc[t].at = "idle"
    /\ pc' = [pc EXCEPT ![t] = [at |-> "wait", op |-> op, args |-> args,
                                seen |-> <<>>, res |-> "none"]]
    /\ UNCHANGED <<gmdc, lock>>

\* A wrong write(): the lock is taken while readers hold it.
GWriteAmongReaders(t) ==
    /\ pc[t].at = "wait"
    /\ pc[t].op \in WriterOps
    /\ lock.writer = None
    /\ IF lock.poisoned
       THEN /\ pc' = [pc EXCEPT ![t] = Idle("poisoned")]
            /\ UNCHANGED lock
       ELSE /\ lock' = [lock EXCEPT !.writer = Some(t)]
            /\ pc' = [pc EXCEPT ![t].at = "locked"]
    /\ UNCHANGED gmdc

\* GLOBAL_MDC.write().unwrap(): waits until nobody holds the lock; a poisoned
\* lock makes write() return Err, on which unwrap panics and the guard inside
\* the Err is dropped.
GWrite(t) ==
    /\ pc[t].at = "wait"
    /\ pc[t].op \in WriterOps
    /\ lock.writer = None
    /\ lock.readers = {}
    /\ IF lock.poisoned
       THEN /\ pc' = [pc EXCEPT ![t] = Idle("poisoned")]
            /\ UNCHANGED lock
       ELSE /\ lock' = [lock EXCEPT !.writer = Some(t)]
            /\ pc' = [pc EXCEPT ![t].at = "locked"]
    /\ UNCHANGED gmdc

\* What get hands to its callback, and iter to its visitor call by call.
Seen(op, args, m) ==
    IF op = "get" THEN {MapGet(m, args[1])} ELSE IterOrders(m)

\* A wrong read(): the guard is taken out of the Err of a poisoned lock
\* (into_inner where unwrap stands) and the map is read.
GReadThroughPoison(t) ==
    /\ pc[t].at = "wait"
    /\ pc[t].op \in ReaderOps
    /\ lock.writer = None
    /\ lock' = [lock EXCEPT !.readers = @ \cup {t}]
    /\ \E seen \in Seen(pc[t].op, pc[t].args, gmdc) :
          pc' = [pc EXCEPT ![t].at = "callback", ![t].seen = seen]
    /\ UNCHANGED gmdc

\* GLOBAL_MDC.read().unwrap(), and the read of the map that follows it: waits
\* while a writer holds the lock; panics on a poisoned lock.  The callback then
\* runs with the read guard alive.
GRead(t) ==
    /\ pc[t].at = "wait"
    /\ pc[t].op \in ReaderOps
    /\ lock.writer = None
    /\ IF lock.poisoned
       THEN /\ pc' = [pc EXCEPT ![t] = Idle("poisoned")]
            /\ UNCHANGED lock
       ELSE /\ lock' = [lock EXCEPT !.readers = @ \cup {t}]
            /\ \E seen \in Seen(pc[t].op, pc[t].args, gmdc) :
                  pc' = [pc EXCEPT ![t].at = "callback", ![t].seen = seen]
    /\ UNCHANGED gmdc

\* The map operation of insert, remove and clear; the write guard is dropped
\* on return.
GWriteBody(t) ==
    /\ pc[t].at = "locked"
    /\ pc[t].op \in {"insert", "remove", "clear"}
    /\ gmdc' = IF pc[t].op = "insert"
               THEN MapInsert(gmdc, pc[t].args[1], pc[t].args[2]).map
               ELSE IF pc[t].op = "remove"
               THEN MapRemove(gmdc, pc[t].args[1]).map
               ELSE MapClear(gmdc)
    /\ lock' = [lock EXCEPT !.writer = None]
    /\ pc' = [pc EXCEPT ![t] = Idle("ok")]

\* extend: HashMap::extend asks the caller's iterator for its next entry and
\* inserts it, with the write guard held; the guard is dropped on return,
\* after the iterator's last answer.
GExtendNext(t) ==
    /\ pc[t].at = "locked"
    /\ pc[t].op = "extend"
    /\ IF pc[t].args = <<>>
       THEN /\ lock' = [lock EXCEPT !.writer = None]
            /\ pc' = [pc EXCEPT ![t] = Idle("ok")]
            /\ UNCHANGED gmdc
       ELSE /\ gmdc' = MapInsert(gmdc, Head(pc[t].args)[1], Head(pc[t].args)[2]).map
            /\ pc' = [pc EXCEPT ![t].args = Tail(@)]
            /\ UNCHANGED lock

\* extend: the caller's iterator panics.  The write guard is dropped while
\* the thread unwinds, which poisons the lock.
GExtendPanics(t) ==
    /\ pc[t].at = "locked"
    /\ pc[t].op = "extend"
    /\ lock' = [lock EXCEPT !.writer = None, !.poisoned = TRUE]
    /\ pc' = [pc EXCEPT ![t] = Idle("panic")]
    /\ UNCHANGED gmdc

\* A wrong return: the read guard is leaked (mem::forget), not dropped.
GReturnKeepsGuard(t) ==
    /\ pc[t].at = "callback"
    /\ pc' = [pc EXCEPT ![t] = Idle("ok")]
    /\ UNCHANGED <<gmdc, lock>>

\* get / iter: the callback returns and the read guard is dropped.
GReturn(t) ==
    /\ pc[t].at = "callback"
    /\ lock' = [lock EXCEPT !.readers = @ \ {t}]
    /\ pc' = [pc EXCEPT ![t] = Idle("ok")]
    /\ UNCHANGED gmdc

\* A wrong lock: write() is let through to the thread that holds the read
\* guard, and the callback's insert takes effect.
GCallbackWritesThrough(t) ==
    /\ pc[t].at = "callback"
    /\ gmdc' = MapInsert(gmdc, "foo", "a").map
    /\ UNCHANGED <<lock, pc>>

\* get / iter: the callback calls insert, extend, remove or clear of global.rs.
\* write() by a thread that holds the read guard blocks for ever or panics
\* (RwLock leaves it open which); a panic drops the read guard while unwinding,
\* which does not poison the lock.
GCallbackWrites(t) ==
    /\ pc[t].at = "callback"
    /\ \/ /\ pc' = [pc EXCEPT ![t].at = "stuck"]
          /\ UNCHANGED lock
       \/ /\ lock' = [lock EXCEPT !.readers = @ \ {t}]
          /\ pc' = [pc EXCEPT ![t] = Idle("panic")]
    /\ UNCHANGED gmdc

(***************************************************************************)
(* get and iter of src/src/lib.rs with the callback as a step of its own.  *)
(***************************************************************************)
\* get / iter: MDC.with(|m| f(m.borrow()...)): the callback runs with the shared
\* borrow of the thread's RefCell alive.
LCall(t, op, args) ==
    /\ pc[t].at = "idle"
    /\ op \in ReaderOps
    /\ \E seen \in Seen(op, args, mdc[t]) :
          pc' = [pc EXCEPT ![t] = [at |-> "borrowed", op |-> op, args |-> args,
                                   seen |-> seen, res |-> "none"]]
    /\ UNCHANGED <<mdc, guards, ret>>

\* get / iter: the callback returns and the borrow ends.
LReturn(t) ==
    /\ pc[t].at = "borrowed"
    /\ pc' = [pc EXCEPT ![t] = Idle("ok")]
    /\ UNCHANGED <<mdc, guards, ret>>

\* get / iter: the callback calls insert, extend, remove or clear of lib.rs.
\* borrow_mut() panics, the RefCell being borrowed; the borrow ends while the
\* thread unwinds.
LCallbackWrites(t) ==
    /\ pc[t].at = "borrowed"
    /\ pc' = [pc EXCEPT ![t] = Idle("panic")]
    /\ ret' = RetPanic(t)
    /\ UNCHANGED <<mdc, guards>>

Init ==
    /\ mdc = [t \in Threads |-> EmptyMap]
    /\ guards = <<>>
    /\ ret = RetUnit(MainThread)
    /\ gmdc = EmptyMap
    /\ gret = RetUnit(MainThread)
    /\ lock = Unlocked
    /\ pc = [t \in Threads |-> Idle("none")]

\* The operations of thread t.  cap bounds the guards a behaviour creates; a guard
\* is dropped once, by whichever thread owns it then.
LocalNext(t, cap) ==
    \/ \E k \in Keys, v \in Vals :
          Insert(t, k, v) /\ UNCHANGED <<gmdc, gret, lock, pc>>
    \/ \E k \in Keys, v \in Vals :
          Len(guards) < cap /\ InsertScoped(t, k, v) /\ UNCHANGED <<gmdc, gret, lock, pc>>
    \/ \E entries \in Batches :
          Extend(t, entries) /\ UNCHANGED <<gmdc, gret, lock, pc>>
    \/ \E entries \in Batches :
          Len(guards) < cap /\ ExtendScoped(t, entries) /\ UNCHANGED <<gmdc, gret, lock, pc>>
    \/ \E k \in Keys : Get(t, k) /\ UNCHANGED <<gmdc, gret, lock, pc>>
    \/ \E k \in Keys : Remove(t, k) /\ UNCHANGED <<gmdc, gret, lock, pc>>
    \/ Clear(t) /\ UNCHANGED <<gmdc, gret, lock, pc>>
    \/ Iter(t) /\ UNCHANGED <<gmdc, gret, lock, pc>>
    \/ \E g \in 1..Len(guards) :
          Live(g) /\ DropInsertGuard(t, g) /\ UNCHANGED <<gmdc, gret, lock, pc>>
    \/ \E g \in 1..Len(guards) :
          Live(g) /\ DropExtendGuard(t, g) /\ UNCHANGED <<gmdc, gret, lock, pc>>

\* lib.rs used by two threads; a guard may be moved to, and dropped by, either.
Next == \E t \in Threads : LocalNext(t, MaxGuards)

Spec == Init /\ [][Next]_vars

\* lib.rs used by one thread, which may nest its guards.
NestedNext == LocalNext(MainThread, MaxNested)

SpecNested == Init /\ [][NestedNext]_vars

\* The same with the drop of a guard run again after it has run (which only
\* unsafe code can do).
RedropNext ==
    \/ Next
    \/ \E t \in Threads, g \in 1..Len(guards) :
          ~Live(g) /\ DropInsertGuard(t, g) /\ UNCHANGED <<gmdc, gret, lock, pc>>
    \/ \E t \in Threads, g \in 1..Len(guards) :
          ~Live(g) /\ DropExtendGuard(t, g) /\ UNCHANGED <<gmdc, gret, lock, pc>>

SpecRedrop == Init /\ [][RedropNext]_vars

\* One thread issues every operation on its thread-local map and on the global
\* map alike.  global.rs has no insert_scoped and no extend_scoped, and the
\* guards of lib.rs reach the thread-local map only.
PairNext ==
    \/ \E k \in Keys, v \in Vals : Insert(MainThread, k, v) /\ GInsert(k, v) /\ UNCHANGED <<lock, pc>>
    \/ \E entries \in Batches : Extend(MainThread, entries) /\ GExtend(entries) /\ UNCHANGED <<lock, pc>>
    \/ \E k \in Keys : Get(MainThread, k) /\ GGet(k) /\ UNCHANGED <<lock, pc>>
    \/ \E k \in Keys : Remove(MainThread, k) /\ GRemove(k) /\ UNCHANGED <<lock, pc>>
    \/ Clear(MainThread) /\ GClear /\ UNCHANGED <<lock, pc>>
    \/ Iter(MainThread) /\ GIter /\ UNCHANGED <<lock, pc>>
    \/ \E k \in Keys, v \in Vals :
          /\ Len(guards) < MaxGuards
          /\ InsertScoped(MainThread, k, v)
          /\ UNCHANGED <<gmdc, gret, lock, pc>>
    \/ \E entries \in Batches :
          /\ Len(guards) < MaxGuards
          /\ ExtendScoped(MainThread, entries)
          /\ UNCHANGED <<gmdc, gret, lock, pc>>
    \/ \E g \in 1..Len(guards) :
          Live(g) /\ DropInsertGuard(MainThread, g) /\ UNCHANGED <<gmdc, gret, lock, pc>>
    \/ \E g \in 1..Len(guards) :
          Live(g) /\ DropExtendGuard(MainThread, g) /\ UNCHANGED <<gmdc, gret, lock, pc>>

SpecPair == Init /\ [][PairNext]_vars

\* global.rs used by two threads whose callbacks and iterators keep away from
\* the store and do not panic.
LockNext(t) ==
    \/ \E c \in Calls : GCall(t, c[1], c[2]) /\ UNCHANGED <<mdc, guards, ret, gret>>
    \/ GWrite(t) /\ UNCHANGED <<mdc, guards, ret, gret>>
    \/ GRead(t) /\ UNCHANGED <<mdc, guards, ret, gret>>
    \/ GWriteBody(t) /\ UNCHANGED <<mdc, guards, ret, gret>>
    \/ GExtendNext(t) /\ UNCHANGED <<mdc, guards, ret, gret>>
    \/ GReturn(t) /\ UNCHANGED <<mdc, guards, ret, gret>>

SpecLock == Init /\ [][\E t \in Threads : LockNext(t)]_vars

\* The same where the lock is handed out fairly: a thread that has started a
\* call runs on, and one that waits at write() or read() gets the lock if it
\* is free again and again.  No thread has to start a call.
Progress(t) ==
    (GWriteBody(t) \/ GExtendNext(t) \/ GReturn(t)) /\ UNCHANGED <<mdc, guards, ret, gret>>

SpecLockFair ==
    /\ SpecLock
    /\ \A t \in Threads :
          /\ WF_vars(Progress(t))
          /\ SF_vars(GWrite(t) /\ UNCHANGED <<mdc, guards, ret, gret>>)
          /\ SF_vars(GRead(t) /\ UNCHANGED <<mdc, guards, ret, gret>>)

\* global.rs used by two threads, one of whose entries iterators may panic.
PoisonNext(t) ==
    \/ LockNext(t)
    \/ GExtendPanics(t) /\ UNCHANGED <<mdc, guards, ret, gret>>

SpecPoison == Init /\ [][\E t \in Threads : PoisonNext(t)]_vars

\* insert, get and iter of global.rs used by two threads, and of lib.rs by one
\* of them, with callbacks that may call a mutating function of the store they
\* were called from.
ReenterNext(t) ==
    \/ \E c \in Calls :
          /\ c[1] \in {"insert", "get", "iter"}
          /\ GCall(t, c[1], c[2])
          /\ UNCHANGED <<mdc, guards, ret, gret>>
    \/ GWrite(t) /\ UNCHANGED <<mdc, guards, ret, gret>>
    \/ GRead(t) /\ UNCHANGED <<mdc, guards, ret, gret>>
    \/ GWriteBody(t) /\ UNCHANGED <<mdc, guards, ret, gret>>
    \/ GReturn(t) /\ UNCHANGED <<mdc, guards, ret, gret>>
    \/ GCallbackWrites(t) /\ UNCHANGED <<mdc, guards, ret, gret>>
    \/ \E k \in Keys, v \in Vals :
          /\ t = MainThread
          /\ pc[t].at = "idle"
          /\ Insert(t, k, v)
          /\ UNCHANGED <<gmdc, gret, lock, pc>>
    \/ \E c \in Calls :
          t = MainThread /\ LCall(t, c[1], c[2]) /\ UNCHANGED <<gmdc, gret, lock>>
    \/ LReturn(t) /\ UNCHANGED <<gmdc, gret, lock>>
    \/ LCallbackWrites(t) /\ UNCHANGED <<gmdc, gret, lock>>

SpecReenter == Init /\ [][\E t \in Threads : ReenterNext(t)]_vars

(***************************************************************************)
(* The ways a guard's life ends.  The guards are locals of the scope       *)
(* MainThread runs: drop(guard) ends one of them at once; when the scope   *)
(* is left, by its end or by a panic that unwinds it, the locals that are  *)
(* still alive are dropped newest first, and then the scope is gone.       *)
(***************************************************************************)
\* drop(guard): the guard is moved out of the scope and its drop runs.
ExplicitDrop(t, g) ==
    /\ pc[t].at = "idle"
    /\ Live(g)
    /\ guards[g].issuer = t
    /\ Drop(t, g)
    /\ UNCHANGED pc

\* The scope is left: its end is reached (how = "exiting"), or its code panics
\* and the thread unwinds (how = "unwinding").
ScopeLeft(t, how) ==
    /\ pc[t].at = "idle"
    /\ pc' = [pc EXCEPT ![t] = [at |-> how, op |-> "scope", args |-> <<>>,
                                seen |-> <<>>, res |-> "none"]]
    /\ ret' = IF how = "unwinding" THEN RetPanic(t) ELSE ret
    /\ UNCHANGED <<mdc, guards>>

\* Leaving the scope runs the drop of the newest guard that is still alive.
DropNewest(t) ==
    /\ pc[t].at \in {"exiting", "unwinding"}
    /\ \E g \in LiveOf(t) : Newest(t, g) /\ Drop(t, g)
    /\ UNCHANGED pc

\* A wrong guard type: no impl Drop, so the scope is gone with its guards
\* never dropped.
ScopeGoneNoDrop(t) ==
    /\ pc[t].at \in {"exiting", "unwinding"}
    /\ pc' = [pc EXCEPT ![t] = Idle(IF pc[t].at = "unwinding" THEN "panic" ELSE "ok")]
    /\ UNCHANGED <<mdc, guards, ret>>

\* The scope is gone once none of its guards is left alive.
ScopeGone(t) ==
    /\ pc[t].at \in {"exiting", "unwinding"}
    /\ LiveOf(t) = {}
    /\ pc' = [pc EXCEPT ![t] = Idle(IF pc[t].at = "unwinding" THEN "panic" ELSE "ok")]
    /\ UNCHANGED <<mdc, guards, ret>>

ScopeNext ==
    \/ \E k \in Keys, v \in Vals :
          /\ pc[MainThread].at = "idle"
          /\ Insert(MainThread, k, v)
          /\ UNCHANGED <<gmdc, gret, lock, pc>>
    \/ \E k \in Keys :
          /\ pc[MainThread].at = "idle"
          /\ Remove(MainThread, k)
          /\ UNCHANGED <<gmdc, gret, lock, pc>>
    \/ \E k \in Keys, v \in Vals :
          /\ pc[MainThread].at = "idle"
          /\ Len(guards) < MaxNested
          /\ InsertScoped(MainThread, k, v)
          /\ UNCHANGED <<gmdc, gret, lock, pc>>
    \/ \E entries \in Batches :
          /\ pc[MainThread].at = "idle"
          /\ Len(guards) < MaxNested
          /\ ExtendScoped(MainThread, entries)
          /\ UNCHANGED <<gmdc, gret, lock, pc>>
    \/ \E g \in 1..Len(guards) :
          ExplicitDrop(MainThread, g) /\ UNCHANGED <<gmdc, gret, lock>>
    \/ \E how \in {"exiting", "unwinding"} :
          ScopeLeft(MainThread, how) /\ UNCHANGED <<gmdc, gret, lock>>
    \/ DropNewest(MainThread) /\ UNCHANGED <<gmdc, gret, lock>>
    \/ ScopeGone(MainThread) /\ UNCHANGED <<gmdc, gret, lock>>

SpecScope == Init /\ [][ScopeNext]_vars

(***************************************************************************)
(* Properties                                                              *)
(***************************************************************************)
Guards == 1..Len(guards)

\* This step created a guard of that kind.  Every scoped call does, so the
\* formulas below ask it first, and the call's action only of such steps.
Created(kind) ==
    /\ Len(guards') = Len(guards) + 1
    /\ guards'[Len(guards')].kind = kind

\* This step ended the life of guard g, as every first drop does.
Ended(g) == Live(g) /\ guards'[g].hist \in {"unwound", "dropped"}

\* C1: single-entry scoped restore on the thread-local store.  Right after
\* insert_scoped(k, v), get(k) yields v on the calling thread; and when the
\* issuing thread drops the InsertGuard with nothing but reads on its map in
\* between, its whole map is again what it was just before insert_scoped.
C1_InsertScopedRestores ==
    [][/\ Created("insert") =>
            \A t \in Threads, k \in Keys, v \in Vals :
                InsertScoped(t, k, v) => MapGet(mdc'[t], k) = Some(v)
       /\ \A g \in Guards :
            Ended(g) =>
                \A t \in Threads :
                    (InOrder(t, g) /\ DropInsertGuard(t, g))
                        => mdc'[t] = guards[g].before]_vars

\* An InsertGuard was dropped in order and its key holds the value restored.
C1_Witness ==
    \E g \in Guards :
        /\ guards[g].kind = "insert"
        /\ guards[g].hist = "unwound"
        /\ guards[g].touched = {"foo"}
        /\ ret.tag = "unit"
        /\ mdc[guards[g].issuer] = {<<"foo", "a">>}

\* C2: batch scoped restore with pairwise distinct keys.  Right after
\* extend_scoped(entries), get yields the supplied value for every supplied
\* key; and when the issuing thread drops the ExtendGuard with nothing but
\* reads on its map in between, its whole map is again what it was just before
\* extend_scoped.
C2_ExtendScopedRestoresDistinct ==
    [][/\ Created("extend") =>
            \A t \in Threads, entries \in Batches :
                (DistinctKeys(entries) /\ ExtendScoped(t, entries))
                    => \A i \in 1..Len(entries) :
                          MapGet(mdc'[t], entries[i][1]) = Some(entries[i][2])
       /\ \A g \in Guards :
            Ended(g) =>
                \A t \in Threads :
                    (/\ InOrder(t, g)
                     /\ DistinctKeys(guards[g].entries)
                     /\ DropExtendGuard(t, g))
                        => mdc'[t] = guards[g].before]_vars

\* An ExtendGuard over both keys was dropped in order: foo is back at its old
\* value and fizz, absent before, is gone.
C2_Witness ==
    \E g \in Guards :
        /\ guards[g].kind = "extend"
        /\ guards[g].hist = "unwound"
        /\ guards[g].touched = {"foo", "fizz"}
        /\ ret.tag = "unit"
        /\ mdc[guards[g].issuer] = {<<"foo", "a">>}

\* C3: batch scoped restore with a repeated key.  When the issuing thread drops,
\* with nothing but reads in between, an ExtendGuard whose entry sequence
\* repeated a key, every key of the guard holds its value of before the call
\* (or is absent if it was absent then).
C3_ExtendScopedRestoresRepeated ==
    [][\A g \in Guards :
          Ended(g) =>
              \A t \in Threads :
                  (/\ InOrder(t, g)
                   /\ ~DistinctKeys(guards[g].entries)
                   /\ DropExtendGuard(t, g))
                      => \A k \in guards[g].touched :
                            MapGet(mdc'[t], k) = MapGet(guards[g].before, k)]_vars

\* C4: nested guards dropped newest first.  For scoped calls of one thread
\* (batches with pairwise distinct keys) whose guards are dropped in reverse
\* order of creation with no unscoped mutation in between, every drop leaves
\* the map as it was just before that guard's call.
C4_NestedRestores ==
    [][\A g \in Guards :
          (/\ Ended(g)
           /\ InOrder(MainThread, g)
           /\ DistinctKeys(guards[g].entries)
           /\ Drop(MainThread, g))
              => mdc'[MainThread] = guards[g].before]_vars

\* Two guards over the same key were created one inside the other and dropped
\* newest first, and the map is the initial (empty) one again.
C4_Witness ==
    /\ Len(guards) = 2
    /\ \A g \in Guards : guards[g].hist = "unwound" /\ "foo" \in guards[g].touched
    /\ guards[1].kind = "insert"
    /\ guards[2].kind = "extend"
    /\ mdc[MainThread] = EmptyMap

\* C5: a guard's drop touches only the keys of its snapshot.  Whatever happened
\* while the guard was outstanding, its drop leaves every other key of the
\* dropping thread's map, and every other thread's map, unchanged.
C5_DropFrame ==
    [][\A g \in Guards :
          Ended(g) =>
              \A t \in Threads :
                  Drop(t, g)
                      => /\ \A k \in Keys \ guards[g].touched :
                               MapGet(mdc'[t], k) = MapGet(mdc[t], k)
                         /\ \A u \in Threads \ {t} : mdc'[u] = mdc[u]]_vars

\* A guard over foo alone was dropped, not in order (its issuer's map had been
\* changed by other operations, or another thread ran the drop), and the fizz
\* entry of its issuer's map is there.
C5_Witness ==
    \E g \in Guards :
        /\ guards[g].hist = "dropped"
        /\ guards[g].touched = {"foo"}
        /\ ret.tag = "unit"
        /\ MapGet(mdc[guards[g].issuer], "fizz") = Some("b")

\* C7: a guard restores the map it was issued from.  A drop changes no map
\* other than the issuing thread's, whichever thread runs the drop.
C7_DropRestoresIssuer ==
    [][\A g \in Guards :
          Ended(g) =>
              \A t \in Threads :
                  Drop(t, g)
                      => \A u \in Threads \ {guards[g].issuer} :
                            mdc'[u] = mdc[u]]_vars

\* C10: thread isolation.  Every map starts empty, and an operation run by one
\* thread (drops included) changes the map of no other thread, so what get and
\* iter read on thread u changes only through u's own operations.
C10_ThreadIsolation ==
    /\ \A t \in Threads : mdc[t] = EmptyMap
    /\ [][\A u \in Threads \ {ret'.by} : mdc'[u] = mdc[u]]_vars

\* Both threads hold entries, and different ones.
C10_Witness ==
    /\ mdc["A"] = {<<"foo", "a">>}
    /\ mdc["B"] = {<<"foo", "b">>, <<"fizz", "a">>}

SameResult(r1, r2) ==
    /\ r1.tag = r2.tag
    /\ IF r1.tag = "visits"
       THEN /\ Len(r1.val) = Len(r2.val)
            /\ {r1.val[i] : i \in 1..Len(r1.val)} = {r2.val[i] : i \in 1..Len(r2.val)}
       ELSE r1.val = r2.val

Upsert(m, n, r, k, v) ==
    /\ r.tag = "option"
    /\ (\A v0 \in Vals : <<k, v0>> \notin m) => r.val = None
    /\ \A v0 \in Vals : <<k, v0>> \in m => r.val = Some(v0)
    /\ MapGet(n, k) = Some(v)
    /\ \A e \in n : e[1] = k => e[2] = v
    /\ {e \in n : e[1] # k} = {e \in m : e[1] # k}

\* C9: on either map, insert(k, v) returns None when k was absent and Some(v0)
\* when k held v0; afterwards get(k) yields v, k has one entry and every other
\* key is unchanged.
C9_UpsertReturnsPrior ==
    [][\A k \in Keys, v \in Vals :
          (Insert(MainThread, k, v) /\ GInsert(k, v))
              => /\ Upsert(mdc[MainThread], mdc'[MainThread], ret', k, v)
                 /\ Upsert(gmdc, gmdc', gret', k, v)]_vars

\* insert has just overwritten foo on both maps and returned the old value,
\* which differs between the two maps.
C9_Witness ==
    /\ ret = RetOption(MainThread, Some("a"))
    /\ gret = RetOption(MainThread, None)
    /\ <<"foo", "b">> \in mdc[MainThread]
    /\ <<"foo", "b">> \in gmdc

\* What get and iter read from a map with no entry: None for every key, and
\* no call of the visitor.
ReadsNothing(m) ==
    /\ \A k \in Keys : MapGet(m, k) = None
    /\ \A s \in IterOrders(m) : Len(s) = 0

\* This step is an insert, extend, insert_scoped or extend_scoped of the
\* thread-local map of MainThread.
PutsLocal ==
    \/ \E k \in Keys, v \in Vals : Insert(MainThread, k, v)
    \/ \E entries \in Batches : Extend(MainThread, entries)
    \/ Created("insert")
    \/ Created("extend")

\* This step is an insert or extend of the global map.
PutsGlobal ==
    \/ \E k \in Keys, v \in Vals : GInsert(k, v)
    \/ \E entries \in Batches : GExtend(entries)

\* C13: clear empties the store.  On either map, after clear get yields None
\* for every key and iter visits nothing, and that stays so until the next
\* insert or extend (scoped or not).
C13_ClearEmptiesUntilInsert ==
    [][/\ Clear(MainThread) => ReadsNothing(mdc'[MainThread])
       /\ GClear => ReadsNothing(gmdc')
       /\ (ReadsNothing(mdc[MainThread]) /\ ~PutsLocal)
              => ReadsNothing(mdc'[MainThread])
       /\ (ReadsNothing(gmdc) /\ ~PutsGlobal) => ReadsNothing(gmdc')]_vars

\* C13 as amended: the same, until the next insert or extend (scoped or not) or
\* the drop of a guard that was created before the clear.
C13_ClearEmptiesUntilPut ==
    [][/\ Clear(MainThread) => ReadsNothing(mdc'[MainThread])
       /\ GClear => ReadsNothing(gmdc')
       /\ (/\ ReadsNothing(mdc[MainThread])
           /\ ~PutsLocal
           /\ ~\E g \in Guards : Ended(g))
              => ReadsNothing(mdc'[MainThread])
       /\ (ReadsNothing(gmdc) /\ ~PutsGlobal) => ReadsNothing(gmdc')]_vars

\* clear ran on maps that held foo, while a guard that remembers foo's old
\* value is outstanding: both maps are empty.
C13_Witness ==
    /\ ret = RetUnit(MainThread)
    /\ gret = RetUnit(MainThread)
    /\ mdc[MainThread] = EmptyMap
    /\ gmdc = EmptyMap
    /\ \E g \in Guards :
          /\ guards[g].hist = "tainted"
          /\ guards[g].kind = "insert"
          /\ guards[g].old_value = Some("a")

\* C14: batch snapshot capture.  extend_scoped records one snapshot entry per
\* supplied entry, in the caller's order, each with the value its key held just
\* before that occurrence's insert; for a key repeated in the batch the later
\* occurrence records the earlier occurrence's value.
C14_SnapshotCapture ==
    [][Created("extend") =>
          \A entries \in Batches :
              ExtendScoped(MainThread, entries) =>
                  LET old_entries == guards'[Len(guards')].entries IN
                  /\ Len(old_entries) = Len(entries)
                  /\ \A i \in 1..Len(entries) :
                        /\ old_entries[i][1] = entries[i][1]
                        /\ old_entries[i][2] =
                              MapGet(MapExtend(mdc[MainThread], SubSeq(entries, 1, i - 1)),
                                     entries[i][1])
                  /\ \A i, j \in 1..Len(entries) :
                        (i < j /\ entries[i][1] = entries[j][1]
                               /\ \A h \in (i + 1)..(j - 1) : entries[h][1] # entries[i][1])
                            => old_entries[j][2] = Some(entries[i][2])]_vars

\* extend_scoped([(foo, b), (foo, a)]) ran on a map where foo held a: the
\* snapshot holds foo's old value a, then the first occurrence's value b.
C14_Witness ==
    \E g \in Guards :
        /\ guards[g].hist = "clean"
        /\ guards[g].entries = <<<<"foo", Some("a")>>, <<"foo", Some("b")>>>>
        /\ guards[g].before = {<<"foo", "a">>}
        /\ mdc[MainThread] = {<<"foo", "a">>}
        /\ ret = RetGuard(MainThread, g)

\* The map after insert(k, v) was called for every entry, first to last.
RECURSIVE InsertEach(_, _)
InsertEach(m, entries) ==
    IF entries = <<>>
    THEN m
    ELSE InsertEach(MapInsert(m, Head(entries)[1], Head(entries)[2]).map, Tail(entries))

\* The value of the last entry of key k.
LastValue(entries, k) ==
    LET last == CHOOSE i \in 1..Len(entries) :
                    /\ entries[i][1] = k
                    /\ \A j \in 1..Len(entries) : entries[j][1] = k => j <= i
    IN  entries[last][2]

\* Map n is map m with the entries put in, one by one in order: the last entry
\* of a key gives its value, keys without an entry are as they were.
AsInserts(m, n, entries) ==
    /\ n = InsertEach(m, entries)
    /\ n = {e \in m : e[1] \notin KeysOf(entries)}
              \cup {<<k, LastValue(entries, k)>> : k \in KeysOf(entries)}

\* C20: extend of either map, and extend_scoped before its guard is dropped,
\* leave the map as insert(k, v) for each entry in order would.  (extend
\* returns (), so only steps that return () are asked whether they are one.)
C20_ExtendAsInserts ==
    [][/\ (ret'.tag = "unit" /\ gret'.tag = "unit") =>
            \A entries \in Batches :
                (Extend(MainThread, entries) /\ GExtend(entries))
                    => /\ AsInserts(mdc[MainThread], mdc'[MainThread], entries)
                       /\ AsInserts(gmdc, gmdc', entries)
       /\ Created("extend") =>
            \A entries \in Batches :
                ExtendScoped(MainThread, entries)
                    => AsInserts(mdc[MainThread], mdc'[MainThread], entries)]_vars

\* extend([(fizz, a)]) ran on both maps, then extend_scoped([(foo, a), (foo, b)])
\* on the thread-local one: foo holds b, the value of its last entry.
C20_Witness ==
    /\ gmdc = {<<"fizz", "a">>}
    /\ mdc[MainThread] = {<<"foo", "b">>, <<"fizz", "a">>}
    /\ \E g \in Guards :
          /\ guards[g].hist = "clean"
          /\ guards[g].entries = <<<<"foo", None>>, <<"foo", Some("a")>>>>
          /\ ret = RetGuard(MainThread, g)

\* The old value guard g recorded for key k; for an ExtendGuard that recorded k
\* more than once, the one its drop applies last.
SnapshotValue(g, k) ==
    IF guards[g].kind = "insert"
    THEN guards[g].old_value
    ELSE LET old_entries == guards[g].entries
             last == CHOOSE i \in 1..Len(old_entries) :
                         /\ old_entries[i][1] = k
                         /\ \A j \in 1..Len(old_entries) : old_entries[j][1] = k => j <= i
         IN  old_entries[last][2]

\* C19: a drop overwrites with the snapshot.  Whatever its keys hold when the
\* guard is dropped (after unscoped inserts and removes, or after an older
\* guard of the same key was dropped first), every key of the snapshot then
\* holds the old value recorded for it, and is absent if none was recorded.
C19_DropOverwrites ==
    [][\A g \in Guards :
          Ended(g) =>
              (Drop(MainThread, g)
                  => \A k \in guards[g].touched :
                        MapGet(mdc'[MainThread], k) = SnapshotValue(g, k))]_vars

\* Two InsertGuards of foo were dropped oldest first: foo holds a value, the
\* one the newer guard had recorded.
C19_Witness ==
    /\ Len(guards) = 2
    /\ \A g \in Guards :
          /\ guards[g].kind = "insert"
          /\ guards[g].touched = {"foo"}
          /\ guards[g].hist = "dropped"
    /\ ret = RetUnit(MainThread)
    /\ mdc[MainThread] = {<<"foo", "a">>}

\* Thread t is inside a call of global.rs, between taking the lock and giving
\* it back: as a writer, as a reader.
HoldsWrite(t) == pc[t].at = "locked"

HoldsRead(t) == pc[t].at \in {"callback", "stuck"}

\* While a mutating call holds the lock no other call holds it, and what a
\* reader was handed is still what the map holds.
Exclusion ==
    \A t \in Threads :
        /\ HoldsWrite(t) => \A u \in Threads \ {t} : ~HoldsWrite(u) /\ ~HoldsRead(u)
        /\ (HoldsRead(t) /\ pc[t].op = "get")
              => pc[t].seen = MapGet(gmdc, pc[t].args[1])
        /\ (HoldsRead(t) /\ pc[t].op = "iter")
              => pc[t].seen \in IterOrders(gmdc)

\* C11: reader / writer exclusion on the global map.  A mutating call that
\* holds the lock holds it alone; a get or iter that waits is let in whenever no
\* writer holds the lock, other readers or not; the map is not modified while
\* a get or iter is in flight, and not read while a mutating call holds the
\* lock.
C11_ReaderWriterExclusion ==
    /\ []Exclusion
    /\ [][\A t \in Threads :
            /\ (pc[t].at = "wait" /\ pc[t].op \in ReaderOps
                    /\ \A u \in Threads : ~HoldsWrite(u))
                  => ENABLED GRead(t)
            /\ gmdc' # gmdc => \A u \in Threads : ~HoldsRead(u)
            /\ (pc[t].at = "wait" /\ pc'[t].at = "callback")
                  => \A u \in Threads : ~HoldsWrite(u)]_vars

\* Both threads are in the callback of a get, each with the read guard, while
\* the map holds an entry.
C11_Witness ==
    /\ \A t \in Threads : pc[t].at = "callback" /\ pc[t].op = "get"
    /\ lock.readers = Threads
    /\ gmdc # EmptyMap

\* The lock is held by the threads that are between taking it and giving it
\* back, and by no other: every call takes it once and has given it back when
\* it returns.
HeldByCalls ==
    /\ \A t \in Threads : (lock.writer = Some(t)) <=> HoldsWrite(t)
    /\ \A t \in Threads : (t \in lock.readers) <=> HoldsRead(t)

\* Some thread that has started a call can take its next step.
SomeCallRuns ==
    \E t \in Threads :
        ENABLED ((Progress(t) \/ GWrite(t) \/ GRead(t)) /\ UNCHANGED <<mdc, guards, ret, gret>>)

CallerCodeRuns(t) ==
    \/ pc[t].at = "callback"
    \/ pc[t].at = "locked" /\ pc[t].op = "extend"

\* C15: no caller-supplied code runs while a mutating call holds the write
\* lock.
C15_NoCallerCodeUnderWriteLock ==
    \A t \in Threads : lock.writer = Some(t) => ~CallerCodeRuns(t)

\* C18: a poisoned lock is fatal and stays poisoned.  Once the lock is
\* poisoned nobody holds it, the map is neither modified nor handed to a
\* callback again, every call that gets past write() / read() ends in the
\* panic of unwrap, and the lock stays poisoned.
C18_PoisonIsFatal ==
    /\ [](lock.poisoned =>
             (lock.writer = None /\ lock.readers = {}
                 /\ \A t \in Threads : pc[t].at \in {"idle", "wait"}))
    /\ [][lock.poisoned =>
             /\ lock'.poisoned
             /\ gmdc' = gmdc
             /\ \A t \in Threads :
                   (pc[t].at = "wait" /\ pc'[t] # pc[t]) => pc'[t] = Idle("poisoned")]_vars

\* The entries iterator of one thread's extend panicked after its first entry
\* was inserted, and a call of the other thread then panicked on the poisoned
\* lock.
C18_Witness ==
    /\ lock.poisoned
    /\ pc["A"] = Idle("panic")
    /\ pc["B"] = Idle("poisoned")
    /\ gmdc = {<<"foo", "a">>}

\* C17: a write from inside a read callback never takes effect.  On the
\* global map the callback's call blocks for ever, holding the read guard, or
\* panics; on the thread-local map it panics.  Neither map changes while a
\* callback on it runs.
C17_ReentrantWriteFails ==
    [][\A t \in Threads :
          /\ pc[t].at = "callback"
                => /\ gmdc' = gmdc
                   /\ pc'[t] # pc[t] => pc'[t] \in {[pc[t] EXCEPT !.at = "stuck"],
                                                     Idle("ok"), Idle("panic")}
          /\ (pc[t].at = "callback" /\ GCallbackWrites(t))
                => pc'[t] \in {[pc[t] EXCEPT !.at = "stuck"], Idle("panic")}
          /\ pc[t].at = "stuck" => (pc'[t] = pc[t] /\ gmdc' = gmdc /\ t \in lock'.readers)
          /\ pc[t].at = "borrowed"
                => /\ mdc'[t] = mdc[t]
                   /\ pc'[t] # pc[t] => pc'[t] \in {Idle("ok"), Idle("panic")}
          /\ (pc[t].at = "borrowed" /\ LCallbackWrites(t))
                => (pc'[t] = Idle("panic") /\ ret' = RetPanic(t))]_vars

\* A callback of get on the thread-local map called insert and panicked, and
\* a callback on the global map called insert and is blocked for ever with the
\* read guard, the other thread's insert waiting behind it; both maps are as
\* they were.
C17_Witness ==
    /\ pc["A"] = Idle("panic")
    /\ ret = RetPanic("A")
    /\ mdc["A"] = {<<"foo", "a">>}
    /\ pc["B"].at = "stuck"
    /\ pc["B"].op = "get"
    /\ "B" \in lock.readers
    /\ gmdc = {<<"foo", "b">>}

\* Guard g holds no snapshot any more: its drop has taken it.
Consumed(g) ==
    /\ guards[g].key = None
    /\ guards[g].old_value = None
    /\ guards[g].entries = <<>>

\* C12: every guard is restored exactly once, however its life ends.  On
\* drop(guard), at the end of the scope and while a panic unwinds it, the step
\* that ends a guard applies its snapshot (every key of it holds the value
\* recorded) and takes the snapshot out of the guard; nothing touches an ended
\* guard again; leaving the scope runs nothing but the drops of its guards;
\* and when the scope is gone none of its guards is left unrestored.
C12_RestoredOnceOnEveryPath ==
    [][/\ \A g \in Guards :
            Ended(g) =>
                /\ \A k \in guards[g].touched :
                      MapGet(mdc'[MainThread], k) = SnapshotValue(g, k)
                /\ guards'[g].key = None
                /\ guards'[g].old_value = None
                /\ guards'[g].entries = <<>>
                /\ \A h \in Guards \ {g} : ~Ended(h)
       /\ \A g \in Guards : ~Live(g) => guards'[g] = guards[g]
       /\ (pc[MainThread].at # "idle" /\ mdc' # mdc) => \E g \in Guards : Ended(g)
       /\ (pc[MainThread].at # "idle" /\ pc'[MainThread].at = "idle")
              => \A g \in Guards : ~Live(g) /\ Consumed(g)]_vars

\* A panic unwound a scope that held two guards of foo: both were dropped,
\* the newer first, and the map is empty as before the scope.
C12_Witness ==
    /\ pc[MainThread] = Idle("panic")
    /\ ret = RetUnit(MainThread)
    /\ Len(guards) = 2
    /\ \A g \in Guards : guards[g].hist = "unwound" /\ "foo" \in guards[g].touched
    /\ mdc[MainThread] = EmptyMap

====
